---- MODULE Spec2Model ----
(***************************************************************************)
(* A model of the synthetic order-data generator (generate_data.py) and of *)
(* the constraints the loader's schema (ingest_data.py) puts on its output.*)
(*                                                                         *)
(* Conventions.                                                            *)
(*  - A CSV file is a record [exists, rows]; a row is a record of fields.  *)
(*  - Identifiers are the numbers their digit strings denote.              *)
(*  - A date text "YYYY-MM-DD" is the tuple <<y, m, d>>; the parsed        *)
(*    datetime is the record [year, month, day].                           *)
(*  - A money text "W.CC" is the tuple <<W, CC>>; the float it parses to   *)
(*    is the number of hundredths (exact for two-decimal prices of the     *)
(*    magnitudes modelled, where double rounding error stays far below     *)
(*    half a cent).                                                        *)
(*  - Every call of the random module is a choice over its whole range.    *)
(***************************************************************************)
EXTENDS Integers, Sequences, FiniteSets, TLC

VARIABLES
    customers_csv,          \* data/customers.csv
    products_csv,           \* data/products.csv
    orders_csv,             \* data/orders.csv (read, then rewritten)
    order_items_csv,        \* data/order_items.csv (written)
    reviews_csv,            \* data/reviews.csv (written)
    customers,              \* list read from customers.csv
    products,               \* list read from products.csv
    orders,                 \* list read from orders.csv (gains calculated_total)
    order_items,            \* generated order items
    order_item_id,          \* next order item identifier
    reviews,                \* generated reviews
    review_id,              \* next review identifier
    review_count,           \* number of reviews emitted
    customer_product_map,   \* insertion-ordered: <<[customer_id, product_orders]>>
    reviewed_products,      \* positions sampled from the current customer's list
    i_order,                \* position of the order loop (line 25)
    i_customer,             \* position of the customer loop (line 108)
    i_review,               \* position of the loop over reviewed_products (line 116)
    review_origin,          \* history: for each review, <<customer position, list position>>
    pc,                     \* position in the script ("idle": not running)
    error,                  \* the exception that ended the run, "" when none
    db_exists,              \* ecommerce.db exists
    db,                     \* ecommerce.db: the committed rows of each table
    txn,                    \* rows inserted by the loader's open transaction
    load_table,             \* the loader's import_csv_data call (1..5)
    load_row,               \* position of the loader's loop over the rows (line 143)
    load_pc,                \* position in the loader ("idle": not running)
    load_error,             \* the exception that ended the load, "" when none
    setup_pc,               \* position in the setup driver ("idle": not running)
    answers,                \* history: what input() returned, in order
    steps,                  \* history: the commands run_command started, in order
    exit_status             \* exit status of the setup driver

generator_vars ==
    <<customers_csv, products_csv, orders_csv, order_items_csv, reviews_csv,
      customers, products, orders, order_items, order_item_id, reviews,
      review_id, review_count, customer_product_map, reviewed_products,
      i_order, i_customer, i_review, review_origin, pc, error>>

loader_vars == <<db_exists, db, txn, load_table, load_row, load_pc, load_error>>

setup_vars == <<setup_pc, answers, steps, exit_status>>

vars == <<generator_vars, loader_vars, setup_vars>>

(***************************************************************************)
(* Bounds of the model.                                                    *)
(***************************************************************************)
MaxOrders == 2

(***************************************************************************)
(* Program constants.                                                      *)
(***************************************************************************)
FirstOrderItemId == 5001
FirstReviewId == 6001
MaxReviews == 200

Statuses == {"Pending", "Processing", "Shipped", "Delivered", "Cancelled"}

review_texts ==
    [r \in 1..5 |->
       CASE r = 5 -> <<"Excellent product! Exceeded my expectations.",
                       "Perfect! Exactly what I needed.",
                       "Outstanding quality and fast delivery.",
                       "Absolutely love it! Highly recommend.",
                       "Best purchase ever! Five stars!">>
         [] r = 4 -> <<"Very good product, happy with purchase.",
                       "Good quality, works as expected.",
                       "Great product, minor issues but overall satisfied.",
                       "Solid product, would buy again.",
                       "Nice item, good value for money.">>
         [] r = 3 -> <<"Decent product, meets basic needs.",
                       "Average quality, nothing special.",
                       "It's okay, works fine but not amazing.",
                       "Fair product for the price.",
                       "Acceptable, does what it says.">>
         [] r = 2 -> <<"Disappointed, expected better quality.",
                       "Not great, has some issues.",
                       "Below expectations, wouldn't recommend.",
                       "Poor quality, not worth the price.",
                       "Unsatisfied, had problems with it.">>
         [] OTHER -> <<"Terrible product, waste of money.",
                       "Very disappointed, does not work.",
                       "Awful quality, returned immediately.",
                       "Complete disaster, do not buy.",
                       "Worst purchase, totally unusable.">>]

(***************************************************************************)
(* Library functions the script calls, computed as the library computes    *)
(* them.                                                                   *)
(***************************************************************************)

\* float(text) of a money text: the value in hundredths.
ParseFloat(text) == text[1] * 100 + text[2]

\* f"{x:.2f}" of a float holding x hundredths.
Format2f(x) == <<x \div 100, x % 100>>

IsLeap(y) == (y % 4 = 0) /\ ((y % 100 # 0) \/ (y % 400 = 0))

DaysInMonth(y, m) ==
    IF m = 2 THEN (IF IsLeap(y) THEN 29 ELSE 28)
    ELSE IF m \in {4, 6, 9, 11} THEN 30 ELSE 31

RECURSIVE DaysBeforeMonth(_, _)
DaysBeforeMonth(y, m) ==
    IF m <= 1 THEN 0 ELSE DaysBeforeMonth(y, m - 1) + DaysInMonth(y, m - 1)

DaysBeforeYear(y) ==
    LET p == y - 1 IN p * 365 + (p \div 4) - (p \div 100) + (p \div 400)

\* datetime.toordinal: 0001-01-01 is day 1.
ToOrdinal(dt) == DaysBeforeYear(dt.year) + DaysBeforeMonth(dt.year, dt.month) + dt.day

\* datetime.fromordinal, by the 400/100/4/1-year cycle decomposition.
FromOrdinal(ord) ==
    LET n0   == ord - 1
        n400 == n0 \div 146097
        r400 == n0 % 146097
        n100 == r400 \div 36524
        r100 == r400 % 36524
        n4   == r100 \div 1461
        r4   == r100 % 1461
        n1   == r4 \div 365
        n    == r4 % 365
        y    == n400 * 400 + 1 + n100 * 100 + n4 * 4 + n1
    IN  IF n1 = 4 \/ n100 = 4
        THEN [year |-> y - 1, month |-> 12, day |-> 31]
        ELSE LET guess == (n + 50) \div 32
                 month == IF DaysBeforeMonth(y, guess) > n THEN guess - 1 ELSE guess
             IN  [year |-> y, month |-> month, day |-> n - DaysBeforeMonth(y, month) + 1]

\* datetime.strptime(text, '%Y-%m-%d') succeeds exactly on a calendar date.
ValidDateText(text) ==
    /\ text[1] \in 1..9999
    /\ text[2] \in 1..12
    /\ text[3] \in 1..DaysInMonth(text[1], text[2])

strptime(text) == [year |-> text[1], month |-> text[2], day |-> text[3]]

\* datetime.strftime('%Y-%m-%d')
strftime(dt) == <<dt.year, dt.month, dt.day>>

\* dt + timedelta(days=n)
AddDays(dt, n) == FromOrdinal(ToOrdinal(dt) + n)

\* SamplePositions drawing with replacement.
SamplePositionsWithReplacement(n, k) == [1..k -> 1..n]

\* The lists random.sample(population, k) can return: k distinct positions,
\* in selection order.  Empty when k exceeds the population (the call raises).
SamplePositions(n, k) ==
    {s \in [1..k -> 1..n] : \A a, b \in 1..k : a # b => s[a] # s[b]}

\* ScaledFractionRange with the fraction drawn from 0.2 to 0.6.
ScaledFractionRangeWide(n) == (n \div 5)..((3 * n) \div 5)

\* The values int(n * random.uniform(0.2, 0.4)) can take: uniform returns
\* 0.2 + 0.2 * random(), which reaches both end points in double arithmetic.
ScaledFractionRange(n) == (n \div 5)..((2 * n) \div 5)

Max(a, b) == IF a >= b THEN a ELSE b
Min(a, b) == IF a <= b THEN a ELSE b

RECURSIVE SumSeq(_)
SumSeq(s) == IF s = <<>> THEN 0 ELSE s[1] + SumSeq(Tail(s))

SetKey(d, k, v) == [f \in (DOMAIN d) \cup {k} |-> IF f = k THEN v ELSE d[f]]

(***************************************************************************)
(* The input files explored.                                               *)
(***************************************************************************)
ProductPrices == << <<10, 0>>, <<20, 0>>, <<0, 99>>, <<19, 95>>, <<149, 50>> >>

\* An ordinary date, a date whose next 30 days cross a leap day, a date whose
\* next 30 days cross the end of the year, and a text that is no date.
DateTexts == { <<2025, 1, 1>>, <<2024, 2, 28>>, <<2025, 12, 15>>, <<2025, 2, 30>> }

CustomerRow(c) == [customer_id |-> c]

ProductRow(i) == [product_id |-> 100 + i, price |-> ProductPrices[i]]

OrderRow(i, c, st, d) ==
    [order_id |-> 1000 + i, customer_id |-> c, order_date |-> d,
     order_status |-> st, total_amount |-> <<0, 0>>,
     shipping_address |-> "address", payment_method |-> "card"]

Catalog(P) == [i \in 1..P |-> ProductRow(i)]

TwoCustomers == <<CustomerRow(1), CustomerRow(2)>>

File(rows) == [exists |-> TRUE, rows |-> rows]
NoFile == [exists |-> FALSE, rows |-> <<>>]

Input(cs, P, os) == [customers |-> cs, products |-> Catalog(P), orders |-> os]

\* Empty record sets.
EmptyInputs ==
    { Input(<<>>, 1, <<>>), Input(TwoCustomers, 0, <<>>), Input(TwoCustomers, 1, <<>>),
      Input(TwoCustomers, 0, <<OrderRow(1, 1, "Pending", <<2025, 1, 1>>)>>) }

\* One order of any status and date, on a catalog of one product.
SingleOrderInputs ==
    { Input(TwoCustomers, 1, <<OrderRow(1, 1, st, d)>>) : st \in Statuses, d \in DateTexts }

\* One order on the full catalog: every item count the draw allows fits.
FullCatalogInputs ==
    { Input(TwoCustomers, 5, <<OrderRow(1, 1, st, <<2025, 1, 1>>)>>) :
        st \in {"Pending", "Cancelled"} }

\* One fulfilled order on a catalog of two products.
TwoProductInputs ==
    { Input(TwoCustomers, 2, <<OrderRow(1, 1, "Delivered", <<2025, 1, 1>>)>>) }

\* Orders of two customers, all at one date.
DeliveredOrPending == { <<1, "Delivered">>, <<2, "Pending">> }
PendingOrCancelled == { <<1, "Pending">>, <<2, "Cancelled">> }

OrderLists(n, choices) ==
    { [i \in 1..n |-> OrderRow(i, ch[i][1], ch[i][2], <<2025, 1, 1>>)] :
        ch \in [1..n -> choices] }

\* Several orders on a catalog of one product, where one customer's orders
\* are delivered.
SeveralOrderInputs ==
    { Input(TwoCustomers, 1, os) :
        os \in UNION { OrderLists(n, DeliveredOrPending) : n \in 2..MaxOrders } }

\* Two orders on a catalog of two products, neither fulfilled.
TwoOrderInputs ==
    { Input(TwoCustomers, 2, os) : os \in OrderLists(2, PendingOrCancelled) }

\* An order whose customer is not in the customers file.
UnknownCustomerInputs ==
    { Input(<<CustomerRow(2)>>, 1, <<OrderRow(1, 1, "Delivered", <<2025, 1, 1>>)>>) }

Inputs ==
    UnknownCustomerInputs \cup EmptyInputs \cup SingleOrderInputs \cup FullCatalogInputs \cup TwoProductInputs
    \cup SeveralOrderInputs \cup TwoOrderInputs

(***************************************************************************)
(* The loader and the setup driver when they are not running.              *)
(***************************************************************************)
Tables == <<"customers", "products", "orders", "order_items", "reviews">>

\* The tables of a database that holds no row.
NoRows == [t \in {Tables[k] : k \in 1..Len(Tables)} |-> <<>>]

\* The exit status of a process that has not exited.
Running == -1

NoLoader ==
    /\ db_exists = FALSE
    /\ db = NoRows
    /\ txn = <<>>
    /\ load_table = 1
    /\ load_row = 1
    /\ load_pc = "idle"
    /\ load_error = ""

NoDriver ==
    /\ setup_pc = "idle"
    /\ answers = <<>>
    /\ steps = <<>>
    /\ exit_status = Running

Init ==
    /\ NoLoader
    /\ NoDriver
    /\ \E in \in Inputs, missing \in {"", "customers", "products", "orders"} :
         /\ missing # "" => in = Input(TwoCustomers, 1, <<>>)
         /\ customers_csv = IF missing = "customers" THEN NoFile ELSE File(in.customers)
         /\ products_csv = IF missing = "products" THEN NoFile ELSE File(in.products)
         /\ orders_csv = IF missing = "orders" THEN NoFile ELSE File(in.orders)
    /\ order_items_csv = NoFile
    /\ reviews_csv = NoFile
    /\ customers = <<>>
    /\ products = <<>>
    /\ orders = <<>>
    /\ order_items = <<>>
    /\ order_item_id = FirstOrderItemId
    /\ reviews = <<>>
    /\ review_id = FirstReviewId
    /\ review_count = 0
    /\ customer_product_map = <<>>
    /\ reviewed_products = <<>>
    /\ i_order = 1
    /\ i_customer = 1
    /\ i_review = 1
    /\ review_origin = <<>>
    /\ pc = "read"
    /\ error = ""

(***************************************************************************)
(* The script, top to bottom.                                              *)
(***************************************************************************)

\* An uncaught exception ends the run where it is raised.
Raise(e) ==
    /\ pc' = "failed"
    /\ error' = e

\* Lines 5-19: the three input files are read into lists.
ReadInputs ==
    /\ pc = "read"
    /\ UNCHANGED <<loader_vars, setup_vars>>
    /\ IF customers_csv.exists /\ products_csv.exists /\ orders_csv.exists
       THEN /\ customers' = customers_csv.rows
            /\ products' = products_csv.rows
            /\ orders' = orders_csv.rows
            /\ pc' = "order_items"
            /\ error' = error
       ELSE /\ Raise("FileNotFoundError")
            /\ UNCHANGED <<customers, products, orders>>
    /\ UNCHANGED <<customers_csv, products_csv, orders_csv, order_items_csv,
                   reviews_csv, order_items, order_item_id, reviews, review_id,
                   review_count, customer_product_map, reviewed_products,
                   i_order, i_customer, i_review, review_origin>>

\* NumItemsRange with the status test lost.
NumItemsRangeAnyStatus(order) == 1..5

\* Lines 26-29: the range the item count is drawn from.
NumItemsRange(order) ==
    IF order.order_status = "Cancelled" THEN 1..3 ELSE 1..5

\* QuantityRange starting at zero.
QuantityRangeFromZero == 0..3

\* Line 35: the range a quantity is drawn from.
QuantityRange == 1..3

\* OrderItem with the quantity left out of the subtotal.
OrderItemSubtotalOfOne(id, order, product, quantity) ==
    LET unit_price == ParseFloat(product.price)
    IN  [order_item_id |-> id,
         order_id |-> order.order_id,
         product_id |-> product.product_id,
         quantity |-> quantity,
         unit_price |-> Format2f(unit_price),
         subtotal |-> Format2f(unit_price)]

\* Lines 36-47: the record appended for one selected product.
OrderItem(id, order, product, quantity) ==
    LET unit_price == ParseFloat(product.price)
        subtotal == quantity * unit_price
    IN  [order_item_id |-> id,
         order_id |-> order.order_id,
         product_id |-> product.product_id,
         quantity |-> quantity,
         unit_price |-> Format2f(unit_price),
         subtotal |-> Format2f(subtotal)]

\* ItemId with the counter advanced once per order instead of once per item.
ItemIdPerOrder(first, j) == first

\* Lines 41 and 48: the identifier of the j-th item appended for an order,
\* the counter standing at `first` when the order's loop starts.
ItemId(first, j) == first + j - 1

\* OrderTotal with the quantity left out of the accumulated amount.
OrderTotalOfUnitPrices(selected, quantity) ==
    SumSeq([j \in 1..Len(selected) |-> ParseFloat(selected[j].price)])

\* Lines 32-38: the running total over the selected products.
OrderTotal(selected, quantity) ==
    SumSeq([j \in 1..Len(selected) |-> quantity[j] * ParseFloat(selected[j].price)])

\* Lines 25-51: one iteration of the loop over orders.
GenerateOrderItems ==
    /\ pc = "order_items"
    /\ UNCHANGED <<loader_vars, setup_vars>>
    /\ i_order <= Len(orders)
    /\ LET order == orders[i_order] IN
       \E num_items \in NumItemsRange(order) :
         IF num_items > Len(products)
         THEN /\ Raise("ValueError: Sample larger than population")
              /\ UNCHANGED <<orders, order_items, order_item_id, i_order>>
         ELSE \E pos \in SamplePositions(Len(products), num_items),
                 quantity \in [1..num_items -> QuantityRange] :
                LET selected_products == [j \in 1..num_items |-> products[pos[j]]]
                    items == [j \in 1..num_items |->
                                OrderItem(ItemId(order_item_id, j), order,
                                          selected_products[j], quantity[j])]
                    total == OrderTotal(selected_products, quantity)
                IN  /\ order_items' = order_items \o items
                    /\ order_item_id' = order_item_id + num_items
                    /\ orders' = [orders EXCEPT ![i_order] =
                                    SetKey(order, "calculated_total", Format2f(total))]
                    /\ i_order' = i_order + 1
                    /\ UNCHANGED <<pc, error>>
    /\ UNCHANGED <<customers_csv, products_csv, orders_csv, order_items_csv,
                   reviews_csv, customers, products, reviews, review_id,
                   review_count, customer_product_map, reviewed_products,
                   i_customer, i_review, review_origin>>

\* Lines 53-58: order_items.csv is written.
WriteOrderItems ==
    /\ pc = "order_items"
    /\ UNCHANGED <<loader_vars, setup_vars>>
    /\ i_order > Len(orders)
    /\ order_items_csv' = File(order_items)
    /\ pc' = "write_orders"
    /\ UNCHANGED <<customers_csv, products_csv, orders_csv, reviews_csv,
                   customers, products, orders, order_items, order_item_id,
                   reviews, review_id, review_count, customer_product_map,
                   reviewed_products, i_order, i_customer, i_review,
                   review_origin, error>>

\* RewrittenOrder with the two trailing columns exchanged.
RewrittenOrderColumnsExchanged(order) ==
    [order_id |-> order.order_id,
     customer_id |-> order.customer_id,
     order_date |-> order.order_date,
     order_status |-> order.order_status,
     total_amount |-> order.calculated_total,
     shipping_address |-> order.payment_method,
     payment_method |-> order.shipping_address]

\* Lines 68-76: the row written for one order.
RewrittenOrder(order) ==
    [order_id |-> order.order_id,
     customer_id |-> order.customer_id,
     order_date |-> order.order_date,
     order_status |-> order.order_status,
     total_amount |-> order.calculated_total,
     shipping_address |-> order.shipping_address,
     payment_method |-> order.payment_method]

\* Lines 62-76: orders.csv is rewritten with the calculated totals.
WriteOrders ==
    /\ pc = "write_orders"
    /\ UNCHANGED <<loader_vars, setup_vars>>
    /\ orders_csv' = File([i \in 1..Len(orders) |-> RewrittenOrder(orders[i])])
    /\ pc' = "build_map"
    /\ UNCHANGED <<customers_csv, products_csv, order_items_csv, reviews_csv,
                   customers, products, orders, order_items, order_item_id,
                   reviews, review_id, review_count, customer_product_map,
                   reviewed_products, i_order, i_customer, i_review,
                   review_origin, error>>

\* Line 87: the first order with the item's order_id (0 when there is none).
FindOrder(item, ords) ==
    IF \E i \in 1..Len(ords) : ords[i].order_id = item.order_id
    THEN CHOOSE i \in 1..Len(ords) :
           /\ ords[i].order_id = item.order_id
           /\ \A j \in 1..(i - 1) : ords[j].order_id # item.order_id
    ELSE 0

\* ReviewableStatuses with an unfulfilled status let through.
ReviewableStatusesWithPending == {"Delivered", "Shipped", "Pending"}

\* Line 88: the statuses whose items may be reviewed.
ReviewableStatuses == {"Delivered", "Shipped"}

\* Lines 89-95: the pair is appended to the customer's list, which is created
\* at the end of the map on the customer's first appearance.
MapAppend(map, customer_id, pair) ==
    IF \E i \in 1..Len(map) : map[i].customer_id = customer_id
    THEN [i \in 1..Len(map) |->
            IF map[i].customer_id = customer_id
            THEN [map[i] EXCEPT !.product_orders = Append(@, pair)]
            ELSE map[i]]
    ELSE Append(map, [customer_id |-> customer_id, product_orders |-> <<pair>>])

\* Lines 86-95: the loop over the order items, from item k on.
RECURSIVE BuildMap(_, _, _, _)
BuildMap(items, ords, k, map) ==
    IF k > Len(items) THEN map
    ELSE LET item == items[k]
             o == FindOrder(item, ords)
         IN  IF o # 0 /\ ords[o].order_status \in ReviewableStatuses
             THEN BuildMap(items, ords, k + 1,
                           MapAppend(map, ords[o].customer_id,
                                     [product_id |-> item.product_id,
                                      order_date |-> ords[o].order_date]))
             ELSE BuildMap(items, ords, k + 1, map)

\* Where the script continues once the loop over the customers from position
\* c on has nothing left to visit.
CustomerLoopFrom(c, map) ==
    IF c > Len(map) THEN "write_reviews" ELSE "review_customer"

\* Lines 80-95 and 106: the counters are reset and the map is built.
BuildCustomerProductMap ==
    /\ pc = "build_map"
    /\ UNCHANGED <<loader_vars, setup_vars>>
    /\ customer_product_map' = BuildMap(order_items, orders, 1, <<>>)
    /\ reviews' = <<>>
    /\ review_id' = FirstReviewId
    /\ review_count' = 0
    /\ i_customer' = 1
    /\ pc' = CustomerLoopFrom(1, customer_product_map')
    /\ UNCHANGED <<customers_csv, products_csv, orders_csv, order_items_csv,
                   reviews_csv, customers, products, orders, order_items,
                   order_item_id, reviewed_products, i_order, i_review,
                   review_origin, error>>

\* Line 112: num_reviews for a customer with n purchased pairs.
NumReviewsRange(n) == { Max(1, f) : f \in ScaledFractionRange(n) }

\* Line 113: the size of the sample.
SampleSize(num_reviews, n) == Min(num_reviews, n)

\* CapReached, one review late.
CapReachedLate(count) == count > MaxReviews

\* Lines 108 and 116: the test that ends the generation of reviews.
CapReached(count) == count >= MaxReviews

\* Lines 107-113: one iteration of the loop over the customers, up to the
\* sample.
ReviewCustomer ==
    /\ pc = "review_customer"
    /\ UNCHANGED <<loader_vars, setup_vars>>
    /\ IF CapReached(review_count)
       THEN /\ pc' = "write_reviews"
            /\ UNCHANGED <<reviewed_products, i_review>>
       ELSE LET n == Len(customer_product_map[i_customer].product_orders) IN
            \E num_reviews \in NumReviewsRange(n) :
              \E pos \in SamplePositions(n, SampleSize(num_reviews, n)) :
                /\ reviewed_products' = pos
                /\ i_review' = 1
                /\ pc' = "review_product"
    /\ UNCHANGED <<customers_csv, products_csv, orders_csv, order_items_csv,
                   reviews_csv, customers, products, orders, order_items,
                   order_item_id, reviews, review_id, review_count,
                   customer_product_map, i_order, i_customer, review_origin,
                   error>>

\* Line 119: the ratings random.choices can return (every weight is positive).
Ratings == {5, 4, 3, 2, 1}

\* TextPool keyed by the mirrored rating.
TextPoolMirrored(rating) == review_texts[6 - rating]

\* Line 120: the pool the text is chosen from.
TextPool(rating) == review_texts[rating]

\* ReviewDelayRange with a review allowed on the day of the order.
ReviewDelayRangeFromZero == 0..30

\* Line 124: the range of the day offset.
ReviewDelayRange == 1..30

\* Lines 126-133: the review record.
Review(id, product_order, customer_id, rating, review_text, review_date) ==
    [review_id |-> id,
     product_id |-> product_order.product_id,
     customer_id |-> customer_id,
     rating |-> rating,
     review_text |-> review_text,
     review_date |-> strftime(review_date)]

\* Lines 115-135: one iteration of the loop over the sampled pairs; when it
\* was the last one, the loop over the customers moves on.
ReviewProduct ==
    /\ pc = "review_product"
    /\ UNCHANGED <<loader_vars, setup_vars>>
    /\ LET entry == customer_product_map[i_customer]
           product_order == entry.product_orders[reviewed_products[i_review]]
       IN  IF CapReached(review_count)
           THEN /\ i_customer' = i_customer + 1
                /\ pc' = CustomerLoopFrom(i_customer + 1, customer_product_map)
                /\ UNCHANGED <<reviews, review_id, review_count, i_review,
                               review_origin, error>>
           ELSE \E rating \in Ratings :
                \E t \in 1..Len(TextPool(rating)) :
                  IF ~ValidDateText(product_order.order_date)
                  THEN /\ Raise("ValueError: time data does not match format")
                       /\ UNCHANGED <<reviews, review_id, review_count, i_review,
                                      i_customer, review_origin>>
                  ELSE \E delay \in ReviewDelayRange :
                         LET order_date == strptime(product_order.order_date)
                             review_date == AddDays(order_date, delay)
                         IN  /\ reviews' = Append(reviews,
                                             Review(review_id, product_order,
                                                    entry.customer_id, rating,
                                                    TextPool(rating)[t],
                                                    review_date))
                             /\ review_origin' = Append(review_origin,
                                                   <<i_customer, reviewed_products[i_review]>>)
                             /\ review_id' = review_id + 1
                             /\ review_count' = review_count + 1
                             /\ IF i_review < Len(reviewed_products)
                                THEN /\ i_review' = i_review + 1
                                     /\ UNCHANGED <<i_customer, pc>>
                                ELSE /\ i_customer' = i_customer + 1
                                     /\ pc' = CustomerLoopFrom(i_customer + 1,
                                                               customer_product_map)
                                     /\ UNCHANGED i_review
                             /\ UNCHANGED error
    /\ UNCHANGED <<customers_csv, products_csv, orders_csv, order_items_csv,
                   reviews_csv, customers, products, orders, order_items,
                   order_item_id, customer_product_map, reviewed_products,
                   i_order>>

\* Lines 137-146: reviews.csv is written and the run ends.
WriteReviews ==
    /\ pc = "write_reviews"
    /\ UNCHANGED <<loader_vars, setup_vars>>
    /\ reviews_csv' = File(reviews)
    /\ pc' = "done"
    /\ UNCHANGED <<customers_csv, products_csv, orders_csv, order_items_csv,
                   customers, products, orders, order_items, order_item_id,
                   reviews, review_id, review_count, customer_product_map,
                   reviewed_products, i_order, i_customer, i_review,
                   review_origin, error>>

Next ==
    \/ ReadInputs
    \/ GenerateOrderItems
    \/ WriteOrderItems
    \/ WriteOrders
    \/ BuildCustomerProductMap
    \/ ReviewCustomer
    \/ ReviewProduct
    \/ WriteReviews

Spec == Init /\ [][Next]_vars

(***************************************************************************)
(* The review loop, resumed at a customer late in a long run.              *)
(*                                                                         *)
(* A run over many customers reaches the head of the customer loop with    *)
(* `visited` customers behind it.  The states below are such states of the *)
(* run in which each visited customer has one delivered order of one item  *)
(* of the first product (item count 1 and quantity 1 drawn each time) and  *)
(* received one review (rating 5, first text, one day after the order);    *)
(* the customers still to visit follow with tail[j] such orders each.      *)
(***************************************************************************)
RECURSIVE OwnerOf(_, _, _)
OwnerOf(i, visited, tail) ==
    \* the customer of the i-th order: one order per visited customer, then
    \* tail[j] orders for the j-th customer still to visit
    IF i <= visited THEN i
    ELSE IF tail = <<>> THEN 0
    ELSE IF i - visited <= tail[1] THEN visited + 1
    ELSE 1 + OwnerOf(i - tail[1], visited, Tail(tail))

LongRun(visited, tail) ==
    LET nOrders == visited + SumSeq(tail)
        nCustomers == visited + Len(tail)
        day == <<2025, 1, 1>>
        ords == [i \in 1..nOrders |->
                   SetKey(OrderRow(i, OwnerOf(i, visited, tail), "Delivered", day),
                          "calculated_total", ProductPrices[1])]
        items == [i \in 1..nOrders |->
                    OrderItem(FirstOrderItemId + i - 1, ords[i], ProductRow(1), 1)]
        map == [c \in 1..nCustomers |->
                  [customer_id |-> c,
                   product_orders |->
                     [j \in 1..(IF c <= visited THEN 1 ELSE tail[c - visited]) |->
                        [product_id |-> ProductRow(1).product_id, order_date |-> day]]]]
    IN  [customers |-> [c \in 1..nCustomers |-> CustomerRow(c)],
         orders |-> ords,
         order_items |-> items,
         customer_product_map |-> map,
         reviews |-> [i \in 1..visited |->
                        Review(FirstReviewId + i - 1, map[i].product_orders[1],
                               map[i].customer_id, 5, review_texts[5][1],
                               AddDays(strptime(day), 1))]]

\* The runs resumed: just below the cap, with a customer whose sample can
\* hold two pairs and one more customer behind; and early, after one
\* customer, with one more customer to visit.
ResumedRuns == { <<MaxReviews - 1, <<5, 1>> >>, <<MaxReviews - 1, <<1>> >>, <<1, <<2>> >> }

InitResumed ==
    \E r \in ResumedRuns :
      LET visited == r[1]
          run == LongRun(visited, r[2])
      IN  /\ customers_csv = File(run.customers)
          /\ products_csv = File(Catalog(1))
          /\ orders_csv = File([i \in 1..Len(run.orders) |-> RewrittenOrder(run.orders[i])])
          /\ order_items_csv = File(run.order_items)
          /\ reviews_csv = NoFile
          /\ customers = run.customers
          /\ products = Catalog(1)
          /\ orders = run.orders
          /\ order_items = run.order_items
          /\ order_item_id = FirstOrderItemId + Len(run.order_items)
          /\ reviews = run.reviews
          /\ review_id = FirstReviewId + visited
          /\ review_count = visited
          /\ customer_product_map = run.customer_product_map
          /\ reviewed_products = <<1>>
          /\ i_order = Len(run.orders) + 1
          /\ i_customer = visited + 1
          /\ i_review = 1
          /\ review_origin = [i \in 1..visited |-> <<i, 1>>]
          /\ pc = "review_customer"
          /\ error = ""
          /\ NoLoader
          /\ NoDriver

NextReviews ==
    \/ ReviewCustomer
    \/ ReviewProduct
    \/ WriteReviews

SpecResumed == InitResumed /\ [][NextReviews]_vars

(***************************************************************************)
(* The script started on a file of two orders, either as delivered to it   *)
(* or as an earlier run of the script left it.                             *)
(*                                                                         *)
(* The earlier run drew one item for each order, with the quantities       *)
(* `quantity`, and wrote one review (rating 5, first text, one day after   *)
(* the order) for the delivered order.                                     *)
(***************************************************************************)
TwoOrders ==
    << OrderRow(1, 2, "Pending", <<2025, 1, 1>>),
       OrderRow(2, 1, "Delivered", <<2024, 2, 28>>) >>

EarlierRun(quantity) ==
    LET items == [i \in 1..2 |->
                    OrderItem(ItemId(FirstOrderItemId, i), TwoOrders[i],
                              ProductRow(1), quantity[i])]
        ords == [i \in 1..2 |->
                   SetKey(TwoOrders[i], "calculated_total",
                          Format2f(OrderTotal(<<ProductRow(1)>>, <<quantity[i]>>)))]
        map == BuildMap(items, ords, 1, <<>>)
        pair == map[1].product_orders[1]
    IN  [orders_csv |-> File([i \in 1..2 |-> RewrittenOrder(ords[i])]),
         order_items_csv |-> File(items),
         reviews_csv |-> File(<<Review(FirstReviewId, pair, map[1].customer_id, 5,
                                       TextPool(5)[1],
                                       AddDays(strptime(pair.order_date), 1))>>)]

\* The files the script can find when it starts.
FilesFound ==
    { [orders_csv |-> File(TwoOrders), order_items_csv |-> NoFile, reviews_csv |-> NoFile] }
    \cup { EarlierRun(q) : q \in [1..2 -> QuantityRange] }

InitAgain ==
    /\ NoLoader
    /\ NoDriver
    /\ \E found \in FilesFound :
         /\ orders_csv = found.orders_csv
         /\ order_items_csv = found.order_items_csv
         /\ reviews_csv = found.reviews_csv
    /\ customers_csv = File(TwoCustomers)
    /\ products_csv = File(Catalog(1))
    /\ customers = <<>>
    /\ products = <<>>
    /\ orders = <<>>
    /\ order_items = <<>>
    /\ order_item_id = FirstOrderItemId
    /\ reviews = <<>>
    /\ review_id = FirstReviewId
    /\ review_count = 0
    /\ customer_product_map = <<>>
    /\ reviewed_products = <<>>
    /\ i_order = 1
    /\ i_customer = 1
    /\ i_review = 1
    /\ review_origin = <<>>
    /\ pc = "read"
    /\ error = ""

SpecAgain == InitAgain /\ [][Next]_vars

(***************************************************************************)
(* Runs that visit more than one customer: from the start, over the orders *)
(* of two customers with fulfilled orders, where the customer whose order  *)
(* comes first has two of them and the other one's order date is no        *)
(* calendar date (the run ends when that customer is visited); and the     *)
(* runs resumed late.                                                      *)
(***************************************************************************)
InterleavedOrders ==
    << OrderRow(1, 2, "Delivered", <<2025, 1, 1>>),
       OrderRow(2, 1, "Shipped", <<2025, 2, 30>>),
       OrderRow(3, 2, "Shipped", <<2025, 12, 15>>) >>

InitVisits ==
    \/ /\ NoLoader
       /\ NoDriver
       /\ customers_csv = File(TwoCustomers)
       /\ products_csv = File(Catalog(1))
       /\ orders_csv = File(InterleavedOrders)
       /\ order_items_csv = NoFile
       /\ reviews_csv = NoFile
       /\ customers = <<>>
       /\ products = <<>>
       /\ orders = <<>>
       /\ order_items = <<>>
       /\ order_item_id = FirstOrderItemId
       /\ reviews = <<>>
       /\ review_id = FirstReviewId
       /\ review_count = 0
       /\ customer_product_map = <<>>
       /\ reviewed_products = <<>>
       /\ i_order = 1
       /\ i_customer = 1
       /\ i_review = 1
       /\ review_origin = <<>>
       /\ pc = "read"
       /\ error = ""
    \/ InitResumed

SpecVisits == InitVisits /\ [][Next]_vars

(***************************************************************************)
(* The constraints of the loader's schema (ingest_data.py), on the rows of *)
(* the files it imports.                                                   *)
(***************************************************************************)

\* PRIMARY KEY: no two rows share the key.
PrimaryKeyHolds(rows, key) ==
    \A a, b \in 1..Len(rows) : a # b => rows[a][key] # rows[b][key]

\* FOREIGN KEY (key) REFERENCES parent(parent_key), with foreign_keys = ON.
ForeignKeyHolds(rows, key, parent_rows, parent_key) ==
    \A a \in 1..Len(rows) :
      \E b \in 1..Len(parent_rows) : parent_rows[b][parent_key] = rows[a][key]

CustomersConstraints(customer_rows) == PrimaryKeyHolds(customer_rows, "customer_id")

ProductsConstraints(product_rows) == PrimaryKeyHolds(product_rows, "product_id")

OrdersConstraints(order_rows, customer_rows) ==
    /\ PrimaryKeyHolds(order_rows, "order_id")
    /\ \A a \in 1..Len(order_rows) : order_rows[a].order_status \in Statuses
    /\ ForeignKeyHolds(order_rows, "customer_id", customer_rows, "customer_id")

OrderItemsConstraints(item_rows, order_rows, product_rows) ==
    /\ PrimaryKeyHolds(item_rows, "order_item_id")
    /\ \A a \in 1..Len(item_rows) : item_rows[a].quantity > 0
    /\ ForeignKeyHolds(item_rows, "order_id", order_rows, "order_id")
    /\ ForeignKeyHolds(item_rows, "product_id", product_rows, "product_id")

ReviewsConstraints(review_rows, product_rows, customer_rows) ==
    /\ PrimaryKeyHolds(review_rows, "review_id")
    /\ \A a \in 1..Len(review_rows) :
         review_rows[a].rating >= 1 /\ review_rows[a].rating <= 5
    /\ ForeignKeyHolds(review_rows, "product_id", product_rows, "product_id")
    /\ ForeignKeyHolds(review_rows, "customer_id", customer_rows, "customer_id")

\* main, lines 300-304: the five imports, parents first, raise on no row.
LoadConstraintsHold ==
    /\ CustomersConstraints(customers_csv.rows)
    /\ ProductsConstraints(products_csv.rows)
    /\ OrdersConstraints(orders_csv.rows, customers_csv.rows)
    /\ OrderItemsConstraints(order_items_csv.rows, orders_csv.rows, products_csv.rows)
    /\ ReviewsConstraints(reviews_csv.rows, products_csv.rows, customers_csv.rows)

(***************************************************************************)
(* The loader (ingest_data.py main), one cursor.execute of an INSERT per   *)
(* step.                                                                   *)
(***************************************************************************)

\* The generator when it is not running.
NoGenerator ==
    /\ customers = <<>>
    /\ products = <<>>
    /\ orders = <<>>
    /\ order_items = <<>>
    /\ order_item_id = FirstOrderItemId
    /\ reviews = <<>>
    /\ review_id = FirstReviewId
    /\ review_count = 0
    /\ customer_product_map = <<>>
    /\ reviewed_products = <<>>
    /\ i_order = 1
    /\ i_customer = 1
    /\ i_review = 1
    /\ review_origin = <<>>
    /\ pc = "idle"
    /\ error = ""

\* Lines 300-304: the file imported into a table.
FileOf(table) ==
    CASE table = "customers" -> customers_csv
      [] table = "products" -> products_csv
      [] table = "orders" -> orders_csv
      [] table = "order_items" -> order_items_csv
      [] OTHER -> reviews_csv

\* The constraints of a table on its rows, the parent tables being those of
\* the database.
TableConstraints(table, rows, database) ==
    CASE table = "customers" -> CustomersConstraints(rows)
      [] table = "products" -> ProductsConstraints(rows)
      [] table = "orders" -> OrdersConstraints(rows, database.customers)
      [] table = "order_items" ->
           OrderItemsConstraints(rows, database.orders, database.products)
      [] OTHER -> ReviewsConstraints(rows, database.products, database.customers)

\* Line 145: the INSERT of a row raises sqlite3.IntegrityError when the row
\* breaks a constraint, given the rows the transaction inserted before it.
InsertRaises(table, pending, row, database) ==
    ~TableConstraints(table, Append(pending, row), database)

\* Where main continues after import_csv_data call number k.
AfterImport(k) == IF k < Len(Tables) THEN "import" ELSE "verify"

\* AfterRollback with the rows inserted before the failure kept.
AfterRollbackKeepingRows(database, table, pending) ==
    [database EXCEPT ![table] = pending]

\* Lines 312-318: the database after conn.rollback() and conn.close().
AfterRollback(database, table, pending) == database

\* Lines 312-315: the exception is printed, the transaction rolled back and
\* the exception raised again.
LoadRaise(e) ==
    /\ db' = AfterRollback(db, Tables[load_table], txn)
    /\ txn' = <<>>
    /\ load_pc' = "failed"
    /\ load_error' = e

\* Lines 280-297: an existing database file is removed, a new one is created
\* and the empty tables are committed.
CreateDatabase ==
    /\ load_pc = "start"
    /\ db_exists' = TRUE
    /\ db' = NoRows
    /\ txn' = <<>>
    /\ load_table' = 1
    /\ load_row' = 1
    /\ load_pc' = "import"
    /\ UNCHANGED <<generator_vars, setup_vars, load_error>>

\* Lines 121-133: a file that is missing or holds no row imports nothing.
SkipImport ==
    /\ load_pc = "import"
    /\ LET file == FileOf(Tables[load_table]) IN ~file.exists \/ file.rows = <<>>
    /\ load_table' = Min(load_table + 1, Len(Tables))
    /\ load_row' = 1
    /\ load_pc' = AfterImport(load_table)
    /\ UNCHANGED <<generator_vars, setup_vars, db_exists, db, txn, load_error>>

\* Lines 143-145: one iteration of the loop over the rows of the file.
InsertRow ==
    /\ load_pc = "import"
    /\ LET table == Tables[load_table]
           file == FileOf(table)
       IN  /\ file.exists
           /\ load_row <= Len(file.rows)
           /\ IF InsertRaises(table, txn, file.rows[load_row], db)
              THEN /\ LoadRaise("IntegrityError")
                   /\ UNCHANGED load_row
              ELSE /\ txn' = Append(txn, file.rows[load_row])
                   /\ load_row' = load_row + 1
                   /\ UNCHANGED <<db, load_pc, load_error>>
    /\ UNCHANGED <<generator_vars, setup_vars, db_exists, load_table>>

\* Lines 147-150: the rows of the file are committed.
CommitImport ==
    /\ load_pc = "import"
    /\ LET table == Tables[load_table]
           file == FileOf(table)
       IN  /\ file.exists
           /\ file.rows # <<>>
           /\ load_row > Len(file.rows)
           /\ db' = [db EXCEPT ![table] = txn]
    /\ txn' = <<>>
    /\ load_table' = Min(load_table + 1, Len(Tables))
    /\ load_row' = 1
    /\ load_pc' = AfterImport(load_table)
    /\ UNCHANGED <<generator_vars, setup_vars, db_exists, load_error>>

\* Lines 253-267: a statistic that SQL returns as NULL cannot be formatted.
StatisticIsNull(database) ==
    \/ \A i \in 1..Len(database.orders) : database.orders[i].order_status = "Cancelled"
    \/ \A i \in 1..Len(database.orders) : database.orders[i].order_status # "Delivered"
    \/ database.reviews = <<>>
    \/ database.products = <<>>

\* Lines 306-310: the indexes are created and the data verified.
VerifyData ==
    /\ load_pc = "verify"
    /\ IF StatisticIsNull(db)
       THEN LoadRaise("TypeError")
       ELSE /\ load_pc' = "done"
            /\ UNCHANGED <<db, txn, load_error>>
    /\ UNCHANGED <<generator_vars, setup_vars, db_exists, load_table, load_row>>

NextLoad ==
    \/ CreateDatabase
    \/ SkipImport
    \/ InsertRow
    \/ CommitImport
    \/ VerifyData

(***************************************************************************)
(* The files the loader is run on: the files of a completed generator run  *)
(* over two customers, two products and two fulfilled orders; the same     *)
(* with one field of one row changed; and the same with one file missing   *)
(* or empty.                                                               *)
(***************************************************************************)
LoadableFiles ==
    LET day == <<2025, 1, 1>>
        ords == << SetKey(OrderRow(1, 1, "Delivered", day), "calculated_total", <<50, 0>>),
                   SetKey(OrderRow(2, 2, "Shipped", day), "calculated_total", <<20, 0>>) >>
        items == << OrderItem(ItemId(FirstOrderItemId, 1), ords[1], ProductRow(1), 1),
                    OrderItem(ItemId(FirstOrderItemId, 2), ords[1], ProductRow(2), 2),
                    OrderItem(ItemId(FirstOrderItemId, 3), ords[2], ProductRow(2), 1) >>
        map == BuildMap(items, ords, 1, <<>>)
    IN  [customers |-> TwoCustomers,
         products |-> Catalog(2),
         orders |-> [i \in 1..2 |-> RewrittenOrder(ords[i])],
         order_items |-> items,
         reviews |-> [c \in 1..2 |->
                        Review(FirstReviewId + c - 1, map[c].product_orders[1],
                               map[c].customer_id, 6 - c, TextPool(6 - c)[1],
                               AddDays(strptime(day), c))]]

\* The primary key of each table.
PrimaryKeys ==
    { <<"customers", "customer_id">>, <<"products", "product_id">>,
      <<"orders", "order_id">>, <<"order_items", "order_item_id">>,
      <<"reviews", "review_id">> }

\* Changes of one field, <<table, column, value>>, to a reference to a row
\* that does not exist or to a number that a CHECK rejects.
FieldChanges ==
    { <<"orders", "customer_id", 99>>,
      <<"order_items", "order_id", 9999>>,
      <<"order_items", "product_id", 999>>,
      <<"order_items", "quantity", 0>>,
      <<"reviews", "product_id", 999>>,
      <<"reviews", "customer_id", 99>>,
      <<"reviews", "rating", 0>>,
      <<"reviews", "rating", 6>> }

\* The rows of a table with the field of row k changed.
ChangedRows(table, k, column, value) ==
    File([LoadableFiles[table] EXCEPT ![k][column] = value])

FilesToLoad ==
    LET whole == [t \in DOMAIN LoadableFiles |-> File(LoadableFiles[t])]
        RowsOf(t) == 1..Len(LoadableFiles[t])
    IN  {whole}
        \cup UNION { { [whole EXCEPT ![key[1]] =
                          ChangedRows(key[1], k, key[2], LoadableFiles[key[1]][1][key[2]])] :
                        k \in RowsOf(key[1]) \ {1} } : key \in PrimaryKeys }
        \cup UNION { { [whole EXCEPT ![ch[1]] = ChangedRows(ch[1], k, ch[2], ch[3])] :
                        k \in RowsOf(ch[1]) } : ch \in FieldChanges }
        \cup { [whole EXCEPT !.orders = ChangedRows("orders", k, "order_status", "Returned")] :
                 k \in RowsOf("orders") }
        \cup { [whole EXCEPT ![t] = f] : t \in DOMAIN LoadableFiles, f \in {NoFile, File(<<>>)} }

\* A database left by an earlier load.
OldDatabase == [NoRows EXCEPT !.customers = <<CustomerRow(7)>>]

InitLoad ==
    /\ NoGenerator
    /\ NoDriver
    /\ \E files \in FilesToLoad :
         /\ customers_csv = files.customers
         /\ products_csv = files.products
         /\ orders_csv = files.orders
         /\ order_items_csv = files.order_items
         /\ reviews_csv = files.reviews
    /\ \E old \in BOOLEAN :
         /\ db_exists = old
         /\ db = IF old THEN OldDatabase ELSE NoRows
    /\ txn = <<>>
    /\ load_table = 1
    /\ load_row = 1
    /\ load_pc = "start"
    /\ load_error = ""

SpecLoad == InitLoad /\ [][NextLoad]_vars

(***************************************************************************)
(* The setup driver (setup.py main).  Each command it runs is the program  *)
(* above: the driver starts it and waits until it has ended.               *)
(***************************************************************************)
GenerateCommand == "python generate_data.py"
IngestCommand == "python ingest_data.py"
QueriesCommand == "python run_queries.py"

\* The answers input() returns.
Answers == {"y", "Y", "n", "yes"}

\* str.lower, on the answers.
Lower(response) == IF response = "Y" THEN "y" ELSE response

\* CommandSucceeded with the exit status of the command ignored.
CommandSucceededAlways(outcome) == TRUE

\* Lines 17-29: run_command returns True when the command exits with status
\* 0, which a Python script does when no exception ended it.
CommandSucceeded(outcome) == outcome = "done"

\* Lines 56-57 and 64-65: sys.exit(1).
Exit(status) ==
    /\ setup_pc' = "exited"
    /\ exit_status' = status

\* Lines 41-49: an existing database is removed when the user agrees.
CheckDatabase ==
    /\ setup_pc = "start"
    /\ IF db_exists
       THEN \E response \in Answers :
              /\ answers' = Append(answers, response)
              /\ IF Lower(response) # "y"
                 THEN /\ setup_pc' = "returned"
                      /\ exit_status' = 0
                      /\ UNCHANGED <<db_exists, db>>
                 ELSE /\ db_exists' = FALSE
                      /\ db' = NoRows
                      /\ setup_pc' = "generate"
                      /\ UNCHANGED exit_status
       ELSE /\ setup_pc' = "generate"
            /\ UNCHANGED <<answers, exit_status, db_exists, db>>
    /\ UNCHANGED <<generator_vars, txn, load_table, load_row, load_pc, load_error, steps>>

\* Lines 52-54 and 18: the generator is started.
RunGenerate ==
    /\ setup_pc = "generate"
    /\ steps' = Append(steps, GenerateCommand)
    /\ pc' = "read"
    /\ setup_pc' = "generating"
    /\ UNCHANGED <<customers_csv, products_csv, orders_csv, order_items_csv,
                   reviews_csv, customers, products, orders, order_items,
                   order_item_id, reviews, review_id, review_count,
                   customer_product_map, reviewed_products, i_order, i_customer,
                   i_review, review_origin, error, loader_vars, answers,
                   exit_status>>

\* Lines 25-29 and 52-57: the generator has ended.
GenerateReturned ==
    /\ setup_pc = "generating"
    /\ pc \in {"done", "failed"}
    /\ IF CommandSucceeded(pc)
       THEN /\ setup_pc' = "ingest"
            /\ UNCHANGED exit_status
       ELSE Exit(1)
    /\ UNCHANGED <<generator_vars, loader_vars, answers, steps>>

\* Lines 60-62 and 18: the loader is started.
RunIngest ==
    /\ setup_pc = "ingest"
    /\ steps' = Append(steps, IngestCommand)
    /\ load_pc' = "start"
    /\ setup_pc' = "ingesting"
    /\ UNCHANGED <<generator_vars, db_exists, db, txn, load_table, load_row,
                   load_error, answers, exit_status>>

\* Lines 25-29 and 60-65: the loader has ended.
IngestReturned ==
    /\ setup_pc = "ingesting"
    /\ load_pc \in {"done", "failed"}
    /\ IF CommandSucceeded(load_pc)
       THEN /\ setup_pc' = "ask"
            /\ UNCHANGED exit_status
       ELSE Exit(1)
    /\ UNCHANGED <<generator_vars, loader_vars, answers, steps>>

\* Lines 67-105: the queries are run when the user agrees (whether they
\* succeed is not looked at), the summary is printed and main returns.
AskQueries ==
    /\ setup_pc = "ask"
    /\ \E response \in Answers :
         /\ answers' = Append(answers, response)
         /\ steps' = IF Lower(response) = "y" THEN Append(steps, QueriesCommand) ELSE steps
    /\ setup_pc' = "returned"
    /\ exit_status' = 0
    /\ UNCHANGED <<generator_vars, loader_vars>>

NextSetup ==
    \/ CheckDatabase
    \/ RunGenerate
    \/ GenerateReturned
    \/ RunIngest
    \/ IngestReturned
    \/ AskQueries
    \/ Next
    \/ NextLoad

\* The input files the driver is run on: a delivered order, an order that
\* is not fulfilled, an order of a customer that is not in the customers
\* file, and no orders file.
SetupInputs ==
    { Input(TwoCustomers, 1, <<OrderRow(1, 1, st, <<2025, 1, 1>>)>>) :
        st \in {"Delivered", "Pending"} }
    \cup UnknownCustomerInputs

InitSetup ==
    /\ NoGenerator
    /\ \E in \in SetupInputs, orders_missing \in BOOLEAN :
         /\ orders_missing => in \in UnknownCustomerInputs
         /\ customers_csv = File(in.customers)
         /\ products_csv = File(in.products)
         /\ orders_csv = IF orders_missing THEN NoFile ELSE File(in.orders)
    /\ order_items_csv = NoFile
    /\ reviews_csv = NoFile
    /\ \E old \in BOOLEAN :
         /\ db_exists = old
         /\ db = IF old THEN OldDatabase ELSE NoRows
    /\ txn = <<>>
    /\ load_table = 1
    /\ load_row = 1
    /\ load_pc = "idle"
    /\ load_error = ""
    /\ setup_pc = "start"
    /\ answers = <<>>
    /\ steps = <<>>
    /\ exit_status = Running

SpecSetup == InitSetup /\ [][NextSetup]_vars

(***************************************************************************)
(* Properties.                                                             *)
(***************************************************************************)

\* The statuses that make an order fulfilled.
FulfilledStatuses == {"Shipped", "Delivered"}

\* The rows of a list that reference the order.
ItemsOf(rows, order_id) == SelectSeq(rows, LAMBDA item : item.order_id = order_id)

\* The sum, in hundredths, of the subtotals stored in the rows.
SubtotalSum(rows) == SumSeq([k \in 1..Len(rows) |-> ParseFloat(rows[k].subtotal)])

\* orders.csv holds the rewritten rows.
OrdersRewritten == order_items_csv.exists /\ pc # "write_orders"

\* A money text with exactly two decimals.
TwoDecimals(text) == text[1] >= 0 /\ text[2] \in 0..99

\* C1: once orders.csv is rewritten, for every order row the stored
\* subtotals of the order items written for it add up to the row's
\* total_amount, to the cent.
C1_TotalsReconciled ==
    OrdersRewritten =>
      \A i \in 1..Len(orders_csv.rows) :
        LET row == orders_csv.rows[i]
            items == ItemsOf(order_items_csv.rows, row.order_id)
        IN  /\ TwoDecimals(row.total_amount)
            /\ \A k \in 1..Len(items) : TwoDecimals(items[k].subtotal)
            /\ SubtotalSum(items) = ParseFloat(row.total_amount)

\* C1 happens: two rewritten orders, one of them with two items of different
\* quantities.
C1_Witness ==
    /\ OrdersRewritten
    /\ Len(orders_csv.rows) = 2
    /\ \E i \in 1..2 :
         LET items == ItemsOf(order_items_csv.rows, orders_csv.rows[i].order_id)
         IN  Len(items) = 2 /\ items[1].quantity = 3 /\ items[2].quantity = 1

\* C2: every review's customer has a Shipped or Delivered order with an
\* item of the reviewed product.
C2_ReviewsOnlyForFulfilledPurchases ==
    \A r \in 1..Len(reviews) :
      \E k \in 1..Len(order_items), o \in 1..Len(orders) :
        /\ order_items[k].product_id = reviews[r].product_id
        /\ order_items[k].order_id = orders[o].order_id
        /\ orders[o].customer_id = reviews[r].customer_id
        /\ orders[o].order_status \in FulfilledStatuses

\* C2 happens: a review is emitted while another customer holds the same
\* product in an order that is not fulfilled.
C2_Witness ==
    /\ Len(reviews) = 1
    /\ \E k \in 1..Len(order_items), o \in 1..Len(orders) :
         /\ order_items[k].product_id = reviews[1].product_id
         /\ order_items[k].order_id = orders[o].order_id
         /\ orders[o].customer_id # reviews[1].customer_id
         /\ orders[o].order_status \notin FulfilledStatuses

\* The orders whose items have been generated.
ProcessedOrders == 1..Min(i_order - 1, Len(orders))

\* C3: every processed order has at least one order item, at most 3 when it
\* is Cancelled and at most 5 otherwise.
C3_ItemCountBounds ==
    \A i \in ProcessedOrders :
      LET n == Len(ItemsOf(order_items, orders[i].order_id))
      IN  IF orders[i].order_status = "Cancelled" THEN n \in 1..3 ELSE n \in 1..5

\* C3 happens: the pass is over and an order that is not Cancelled has 5
\* order items.
C3_Witness ==
    /\ pc = "done"
    /\ \E i \in ProcessedOrders :
         /\ orders[i].order_status # "Cancelled"
         /\ Len(ItemsOf(order_items, orders[i].order_id)) = 5

\* C4: the number of emitted reviews never exceeds 200, and once it is 200
\* no step emits another review.
C4_ReviewCap ==
    /\ [](Len(reviews) <= 200 /\ review_count = Len(reviews))
    /\ [][Len(reviews) = 200 => reviews' = reviews]_vars

\* C4 happens: 200 reviews are out while the current customer still has a
\* sampled pair to go and a later customer is waiting.
C4_Witness ==
    /\ Len(reviews) = 200
    /\ pc = "review_product"
    /\ i_review <= Len(reviewed_products)
    /\ i_customer < Len(customer_product_map)

\* The calendar day after a date text.
DayAfter(d) ==
    IF d[3] < DaysInMonth(d[1], d[2]) THEN <<d[1], d[2], d[3] + 1>>
    ELSE IF d[2] < 12 THEN <<d[1], d[2] + 1, 1>>
    ELSE <<d[1] + 1, 1, 1>>

\* The date text `later` is one of the n calendar days that follow d.
RECURSIVE WithinDaysAfter(_, _, _)
WithinDaysAfter(d, later, n) ==
    /\ n > 0
    /\ \/ DayAfter(d) = later
       \/ WithinDaysAfter(DayAfter(d), later, n - 1)

\* Date texts in calendar order.
DateBefore(a, b) ==
    \/ a[1] < b[1]
    \/ a[1] = b[1] /\ a[2] < b[2]
    \/ a[1] = b[1] /\ a[2] = b[2] /\ a[3] < b[3]

\* The positions in order_items of the items of the customer's fulfilled
\* orders: the j-th of them contributed the j-th pair of the customer's list.
FulfilledItemsOf(customer_id) ==
    SelectSeq([k \in 1..Len(order_items) |-> k],
              LAMBDA k : \E o \in 1..Len(orders) :
                           /\ orders[o].order_id = order_items[k].order_id
                           /\ orders[o].customer_id = customer_id
                           /\ orders[o].order_status \in FulfilledStatuses)

\* The order that contributed the pair the r-th review was written for.
TriggeringOrder(r) ==
    LET customer_id == customer_product_map[review_origin[r][1]].customer_id
        item == order_items[FulfilledItemsOf(customer_id)[review_origin[r][2]]]
    IN  CHOOSE o \in 1..Len(orders) : orders[o].order_id = item.order_id

\* C5: every review is dated 1 to 30 calendar days after the order that
\* contributed its pair, so strictly later.
C5_ReviewDateAfterOrder ==
    \A r \in 1..Len(reviews) :
      LET order_date == orders[TriggeringOrder(r)].order_date
      IN  /\ WithinDaysAfter(order_date, reviews[r].review_date, 30)
          /\ DateBefore(order_date, reviews[r].review_date)

\* C5 happens: a review 30 days after an order of 15 December, in the next
\* year.
C5_Witness ==
    \E r \in 1..Len(reviews) :
      /\ orders[TriggeringOrder(r)].order_date = <<2025, 12, 15>>
      /\ reviews[r].review_date = <<2026, 1, 14>>

\* The position in orders of the order an item references.
OrderPosition(item) == CHOOSE o \in 1..Len(orders) : orders[o].order_id = item.order_id

Range(seq) == { seq[k] : k \in 1..Len(seq) }

\* C7: every review has a rating in 1..5 and a text that is one of the five
\* phrases of that rating's pool and of no other rating's pool.
C7_TextMatchesRating ==
    \A r \in 1..Len(reviews) :
      /\ reviews[r].rating \in 1..5
      /\ Len(review_texts[reviews[r].rating]) = 5
      /\ reviews[r].review_text \in Range(review_texts[reviews[r].rating])
      /\ \A other \in (1..5) \ {reviews[r].rating} :
           reviews[r].review_text \notin Range(review_texts[other])

\* C7 happens: a one-star review with the last phrase of its pool.
C7_Witness ==
    \E r \in 1..Len(reviews) :
      /\ reviews[r].rating = 1
      /\ reviews[r].review_text = "Worst purchase, totally unusable."

\* The input satisfies the data model: identifiers are unique, every order
\* references a customer of the customers file and has one of the five
\* statuses.
InputSatisfiesDataModel ==
    /\ \A a, b \in 1..Len(customers) : a # b => customers[a].customer_id # customers[b].customer_id
    /\ \A a, b \in 1..Len(products) : a # b => products[a].product_id # products[b].product_id
    /\ \A a, b \in 1..Len(orders) : a # b => orders[a].order_id # orders[b].order_id
    /\ \A a \in 1..Len(orders) :
         /\ \E c \in 1..Len(customers) : customers[c].customer_id = orders[a].customer_id
         /\ orders[a].order_status \in
              {"Pending", "Processing", "Shipped", "Delivered", "Cancelled"}

\* C8: when the input satisfies the data model, the files of a completed run
\* satisfy every constraint of the loader's schema.
C8_OutputLoads ==
    (pc = "done" /\ InputSatisfiesDataModel) => LoadConstraintsHold

\* C8 happens: a completed run over two orders that wrote two order items and
\* a review.
C8_Witness ==
    /\ pc = "done"
    /\ InputSatisfiesDataModel
    /\ Len(orders_csv.rows) = 2
    /\ Len(order_items_csv.rows) = 2
    /\ Len(reviews_csv.rows) = 1

\* An input file is missing or holds no row.
InputMissingOrEmpty ==
    \E f \in {customers_csv, products_csv, orders_csv} : ~f.exists \/ f.rows = <<>>

\* C9: a missing or empty input ends the run with nothing written, and a run
\* that failed has written either all of its outputs or none of them.
C9_OutputAllOrNothing ==
    /\ InputMissingOrEmpty =>
         pc # "done" /\ ~order_items_csv.exists /\ ~reviews_csv.exists
    /\ pc = "failed" =>
         \/ ~order_items_csv.exists /\ ~OrdersRewritten /\ ~reviews_csv.exists
         \/ order_items_csv.exists /\ OrdersRewritten /\ reviews_csv.exists

\* C10: no run over a catalog that holds products ends because a sample was
\* requested that is larger than the pool it is drawn from.
C10_SamplesClamped ==
    ~(Len(products) >= 1 /\ error = "ValueError: Sample larger than population")

\* The columns of orders.csv other than total_amount.
OrderFrameColumns ==
    {"order_id", "customer_id", "order_date", "order_status",
     "shipping_address", "payment_method"}

\* C11: a step that changes orders.csv leaves as many rows as there were, in
\* the same sequence, each with the same seven columns and with every column
\* but total_amount unchanged, and total_amount is the sum of the subtotals
\* written for the order; this holds as well when the file is one that an
\* earlier run of the script rewrote.
C11_OrdersRewriteFrame ==
    [][orders_csv' # orders_csv =>
         /\ orders_csv'.exists
         /\ Len(orders_csv'.rows) = Len(orders_csv.rows)
         /\ \A i \in 1..Len(orders_csv.rows) :
              /\ DOMAIN orders_csv'.rows[i] = OrderFrameColumns \cup {"total_amount"}
              /\ \A col \in OrderFrameColumns :
                   orders_csv'.rows[i][col] = orders_csv.rows[i][col]
              /\ orders_csv'.rows[i].total_amount =
                   Format2f(SubtotalSum(ItemsOf(order_items_csv'.rows,
                                                orders_csv.rows[i].order_id)))]_vars

\* C11 happens: the second run has rewritten the file an earlier run left,
\* and an order's total is no longer the one the earlier run wrote.
C11_Witness ==
    /\ pc = "build_map"
    /\ Len(orders_csv.rows) = 2
    /\ \A i \in 1..2 : orders[i].total_amount # <<0, 0>>
    /\ \E i \in 1..2 : orders_csv.rows[i].total_amount # orders[i].total_amount

\* C12: every generated order item has a quantity of 1, 2 or 3, the price of
\* the product it references as its unit_price, and its quantity times that
\* unit_price as its subtotal, all to the cent.
C12_ItemAmounts ==
    \A k \in 1..Len(order_items) :
      LET item == order_items[k] IN
      /\ item.quantity \in {1, 2, 3}
      /\ TwoDecimals(item.unit_price)
      /\ TwoDecimals(item.subtotal)
      /\ \A p \in 1..Len(products) :
           products[p].product_id = item.product_id =>
             ParseFloat(item.unit_price) = ParseFloat(products[p].price)
      /\ \E p \in 1..Len(products) : products[p].product_id = item.product_id
      /\ ParseFloat(item.subtotal) = item.quantity * ParseFloat(item.unit_price)

\* C12 happens: a delivered order of 2025-01-01 got quantity 1 of the product
\* priced 10.00 and quantity 2 of the product priced 20.00, with subtotals
\* 10.00 and 40.00, and its rewritten total is 50.00.
C12_Witness ==
    /\ OrdersRewritten
    /\ Len(orders_csv.rows) = 1
    /\ orders_csv.rows[1].order_status = "Delivered"
    /\ orders_csv.rows[1].order_date = <<2025, 1, 1>>
    /\ orders_csv.rows[1].total_amount = <<50, 0>>
    /\ Len(order_items) = 2
    /\ order_items[1].quantity = 1
    /\ order_items[1].unit_price = <<10, 0>>
    /\ order_items[1].subtotal = <<10, 0>>
    /\ order_items[2].quantity = 2
    /\ order_items[2].unit_price = <<20, 0>>
    /\ order_items[2].subtotal = <<40, 0>>

\* C13: no two order items of one order reference the same product.
C13_DistinctProductsPerOrder ==
    \A k, l \in 1..Len(order_items) :
      (k # l /\ order_items[k].order_id = order_items[l].order_id) =>
        order_items[k].product_id # order_items[l].product_id

\* C13 happens: two orders got two items each, so each product of the
\* catalog of two is in both orders, once in each.
C13_Witness ==
    /\ Len(products) = 2
    /\ Len(order_items) = 4
    /\ order_items[1].order_id = order_items[2].order_id
    /\ order_items[3].order_id = order_items[4].order_id
    /\ order_items[1].order_id # order_items[3].order_id
    /\ order_items[1].product_id = order_items[4].product_id
    /\ order_items[2].product_id = order_items[3].product_id

\* The customers of the fulfilled order items, in order of first appearance.
RECURSIVE FirstAppearances(_, _)
FirstAppearances(k, seen) ==
    IF k > Len(order_items) THEN seen
    ELSE LET o == OrderPosition(order_items[k])
             c == orders[o].customer_id
         IN  IF orders[o].order_status \in FulfilledStatuses /\ c \notin Range(seen)
             THEN FirstAppearances(k + 1, Append(seen, c))
             ELSE FirstAppearances(k + 1, seen)

\* The number of reviews written for the customer at position c of the map.
ReviewsOfVisit(origin, c) == Cardinality({ r \in 1..Len(origin) : origin[r][1] = c })

ImportsReturned ==
    IF load_pc \in {"idle", "start"} THEN {}
    ELSE IF load_pc = "import" \/ load_error = "IntegrityError" THEN 1..(load_table - 1)
    ELSE 1..Len(Tables)

\* C14: the loader drops no row: a table whose import returned holds every
\* row of its file, and the load gets past the imports only when no row of
\* the files breaks a constraint.  When a row breaks a primary-key,
\* foreign-key or CHECK constraint the load ends with the error raised, the
\* table being imported and the tables after it hold no row, and nothing
\* stays uncommitted.
C14_ViolationIsFatal ==
    /\ \A t \in ImportsReturned : db[Tables[t]] = FileOf(Tables[t]).rows
    /\ ~LoadConstraintsHold => load_pc \notin {"verify", "done"} /\ load_error # "TypeError"
    /\ load_pc = "failed" =>
         /\ load_error # ""
         /\ txn = <<>>
         /\ load_error = "IntegrityError" =>
              /\ ~LoadConstraintsHold
              /\ \A t \in load_table..Len(Tables) : db[Tables[t]] = <<>>

\* C14 happens: the third row of order_items.csv broke a constraint after two
\* rows had been inserted; customers, products and orders stay loaded,
\* order_items and reviews hold no row although their files hold rows.
C14_Witness ==
    /\ load_pc = "failed"
    /\ load_error = "IntegrityError"
    /\ Tables[load_table] = "order_items"
    /\ load_row = 3
    /\ db.orders # <<>>
    /\ db.order_items = <<>>
    /\ db.reviews = <<>>
    /\ reviews_csv.rows # <<>>

\* s is an initial part of t.
IsPrefix(s, t) == Len(s) <= Len(t) /\ \A k \in 1..Len(s) : s[k] = t[k]

\* The answer is the letter y, in either case.
AgreesInEitherCase(response) == Lower(response) = "y"

\* The answer is the lower-case letter y.
AgreesInLowerCase(response) == response = "y"

\* What the driver has done so far, Agrees(r) telling whether the answer r
\* is taken as a yes.
DriverState(Agrees(_)) ==
    /\ IsPrefix(steps, <<GenerateCommand, IngestCommand, QueriesCommand>>)
    /\ Len(steps) >= 2 => pc = "done"
    /\ Len(steps) = 3 =>
         /\ load_pc = "done"
         /\ answers # <<>>
         /\ Agrees(answers[Len(answers)])
    /\ pc = "failed" =>
         /\ steps = <<GenerateCommand>>
         /\ load_pc = "idle"
         /\ setup_pc \in {"generating", "exited"}
    /\ load_pc = "failed" =>
         /\ steps = <<GenerateCommand, IngestCommand>>
         /\ setup_pc \in {"ingesting", "exited"}
    /\ setup_pc = "exited" <=> exit_status = 1
    /\ setup_pc = "exited" => pc = "failed" \/ load_pc = "failed"
    /\ setup_pc = "returned" <=> exit_status = 0
    /\ (setup_pc = "returned" /\ steps = <<>>) =>
         /\ db_exists
         /\ db = OldDatabase
         /\ pc = "idle"
         /\ ~order_items_csv.exists
         /\ Len(answers) = 1
         /\ ~Agrees(answers[1])

\* A step of the driver: an answer about an existing database that is not a
\* yes ends the driver with everything as it was, and an ended driver takes
\* no step.
DriverStep(Agrees(_)) ==
    /\ (setup_pc = "start" /\ db_exists /\ ~Agrees(answers'[1])) =>
         /\ setup_pc' = "returned"
         /\ UNCHANGED <<generator_vars, loader_vars, steps>>
    /\ setup_pc \notin {"returned", "exited"}

\* C16: the driver starts its commands in the order generate, ingest,
\* queries; the loader is started only after the generator ended without
\* an exception, and the queries only after the loader ended without one
\* and the last answer is y in either case; when the generator or the loader
\* fails, no later command is started and the driver, once it has noticed,
\* has exited with status 1; an answer other than y or Y about an existing
\* database ends the driver with no command started, the database and the
\* files as they were; and the driver takes no step after it has ended.
C16_StepsInOrder ==
    /\ []DriverState(AgreesInEitherCase)
    /\ [][DriverStep(AgreesInEitherCase)]_vars

\* C16 as stated, with only the lower-case letter y taken as a yes: the
\* queries run only after the answer 'y', and any answer other than 'y'
\* about an existing database ends the driver with nothing done.
C16_OnlyLowerCaseAgrees ==
    /\ []DriverState(AgreesInLowerCase)
    /\ [][DriverStep(AgreesInLowerCase)]_vars

\* C16 happens: a database existed, the user agreed to recreate it, the
\* generator and the loader ended without an exception, the user asked for
\* the queries, and the driver returned after starting all three commands.
C16_Witness ==
    /\ setup_pc = "returned"
    /\ exit_status = 0
    /\ steps = <<GenerateCommand, IngestCommand, QueriesCommand>>
    /\ answers = <<"Y", "y">>
    /\ pc = "done"
    /\ load_pc = "done"
    /\ db.reviews # <<>>

====
